---- MODULE Spec2Model ----
(***************************************************************************)
(* sentrysyslog: RFC 5424 syslog lines forwarded to Sentry through the     *)
(* Python logging surface (src/src/sentrysyslog/__init__.py).              *)
(*                                                                         *)
(* Three specifications share the module:                                  *)
(*   SpecTransform  log_syslog_line after the parse, on arbitrary parsed   *)
(*                  messages and thresholds;                               *)
(*   Spec           run() over a finite input file, every record handed    *)
(*                  on to the Sentry logging integration and before_send;  *)
(*   SpecRewrite    process_syslog_fields on arbitrary outbound payloads,  *)
(*                  applied up to twice.                                   *)
(*                                                                         *)
(* Python values are tagged records [t, v] so that values of different     *)
(* Python types stay comparable; a dict is a total function over AllKeys   *)
(* whose missing keys hold AbsentV.                                        *)
(***************************************************************************)
EXTENDS Integers, Sequences, FiniteSets, TLC

VARIABLES
    event_level,   \* the --event-level threshold
    tmsg,          \* SpecTransform: the parsed message handed to log_syslog_line
    tres,          \* SpecTransform: what log_syslog_line did with it
    tdone,         \* SpecTransform: log_syslog_line has run
    input_file,    \* Spec: the lines the file iterator yields
    pos,           \* Spec: number of lines consumed by the for loop
    finished,      \* Spec: the for loop has seen end of input
    passed,        \* Spec: the texts handed to log_syslog_line, in order
    calls,         \* Spec: the calls made on the logging surface, in order
    crumbs,        \* Spec: breadcrumbs the integration holds
    sent,          \* Spec: events returned by before_send, in order
    payload,       \* SpecRewrite: the event dict as it stands
    orig,          \* SpecRewrite: the event dict as first received
    once,          \* SpecRewrite: the event dict after the first application
    applied,       \* SpecRewrite: number of applications so far
    raisedAt       \* SpecRewrite: the key whose lookup raised, or NoRaise

vars == <<event_level, tmsg, tres, tdone, input_file, pos, finished, passed,
          calls, crumbs, sent, payload, orig, once, applied, raisedAt>>

transformVars == <<tmsg, tres, tdone>>
runVars == <<input_file, pos, finished, passed, calls, crumbs, sent>>
rewriteVars == <<payload, orig, once, applied, raisedAt>>

----------------------------------------------------------------------------
(* Python values *)

NoneV == [t |-> "none", v |-> <<>>]
AbsentV == [t |-> "absent", v |-> <<>>]
EmptyMapV == [t |-> "map", v |-> <<>>]
EmptyListV == [t |-> "list", v |-> <<>>]
Str(s) == [t |-> "str", v |-> s]

\* The keys of syslog_rfc5424_parser's SyslogMessage.as_dict()
AllKeys == {"severity", "facility", "version", "timestamp", "hostname",
            "appname", "procid", "msgid", "sd", "msg"}

EmptyDict == [k \in AllKeys |-> AbsentV]
Has(d, k) == d[k] # AbsentV
KeysOf(d) == {k \in AllKeys : Has(d, k)}

\* dict.pop(key, default): the value and the dict without the key
PopValue(d, k, default) == IF Has(d, k) THEN d[k] ELSE default
PopRest(d, k) == [d EXCEPT ![k] = AbsentV]

----------------------------------------------------------------------------
(* logging levels and the severity table *)

CRITICAL == 50
ERROR == 40
WARNING == 30
INFO == 20
DEBUG == 10

NOTSET == 0

\* the level names logging_level_type accepts for --event-level
LoggingLevels == {NOTSET, DEBUG, INFO, WARNING, ERROR, CRITICAL}

\* logger = logging.getLogger(__name__)
LoggerName == "sentrysyslog"

SeverityNames == {"emerg", "alert", "crit", "err", "warning", "notice",
                  "info", "debug"}

\* getattr(SyslogSeverityToPythonLevel, name).value; the lookup of a name
\* that is no member raises AttributeError
LookupFailed == [ok |-> FALSE, value |-> 0]

SyslogSeverityToPythonLevelNoticeInfo(name) ==
    CASE name \in {"emerg", "alert", "crit"} -> [ok |-> TRUE, value |-> CRITICAL]
      [] name = "err" -> [ok |-> TRUE, value |-> ERROR]
      [] name = "warning" -> [ok |-> TRUE, value |-> WARNING]
      [] name \in {"notice", "info"} -> [ok |-> TRUE, value |-> INFO]
      [] name = "debug" -> [ok |-> TRUE, value |-> DEBUG]
      [] OTHER -> LookupFailed

SyslogSeverityToPythonLevel(name) ==
    CASE name \in {"emerg", "alert", "crit"} -> [ok |-> TRUE, value |-> CRITICAL]
      [] name = "err" -> [ok |-> TRUE, value |-> ERROR]
      [] name \in {"warning", "notice"} -> [ok |-> TRUE, value |-> WARNING]
      [] name = "info" -> [ok |-> TRUE, value |-> INFO]
      [] name = "debug" -> [ok |-> TRUE, value |-> DEBUG]
      [] OTHER -> LookupFailed

----------------------------------------------------------------------------
(* log_syslog_line, after the parse *)

ExcludedKeys == {"facility", "appname", "severity", "msg", "version"}

\* the dict comprehension building syslog_fields
SyslogFieldsKeepsEmptyList(d) ==
    [k \in AllKeys |->
        IF /\ Has(d, k)
           /\ d[k] # NoneV
           /\ d[k] # EmptyMapV
           /\ k \notin ExcludedKeys
        THEN d[k] ELSE AbsentV]

SyslogFields(d) ==
    [k \in AllKeys |->
        IF /\ Has(d, k)
           /\ d[k] # NoneV
           /\ d[k] # EmptyMapV
           /\ d[k] # EmptyListV
           /\ k \notin ExcludedKeys
        THEN d[k] ELSE AbsentV]

\* One positional argument of a logging call: a mapping or a string
DictArg(d) == [kind |-> "mapping", mapping |-> d, text |-> <<>>]
StrArg(s) == [kind |-> "str", mapping |-> EmptyDict, text |-> s]

NoExtra == [present |-> FALSE, data |-> EmptyDict]
Extra(d) == [present |-> TRUE, data |-> d]

\* logger.log(level, msg, *args, **kwargs) / logger.exception(msg, *args)
LogCall(level, msg, args, extra, exc) ==
    [name |-> LoggerName, levelno |-> level, msg |-> msg, args |-> args,
     extra |-> extra, exc_info |-> exc]

\* if level >= event_level: args = (syslog_fields,) else: kwargs = dict(extra=...)
DispatchStrict(level, threshold, fields, msg) ==
    IF level > threshold
    THEN LogCall(level, msg, <<DictArg(fields)>>, NoExtra, FALSE)
    ELSE LogCall(level, msg, <<>>, Extra(fields), FALSE)

Dispatch(level, threshold, fields, msg) ==
    IF level >= threshold
    THEN LogCall(level, msg, <<DictArg(fields)>>, NoExtra, FALSE)
    ELSE LogCall(level, msg, <<>>, Extra(fields), FALSE)

\* What log_syslog_line does with a parsed message m = [severity, msg, dict]:
\* the calls it makes on the logger and whether it raised
LogParsed(m, threshold) ==
    LET level == SyslogSeverityToPythonLevel(m.severity)
    IN IF ~level.ok
       THEN [raised |-> TRUE, emitted |-> <<>>]
       ELSE [raised |-> FALSE,
             emitted |-> <<Dispatch(level.value, threshold,
                                    SyslogFields(m.dict), m.msg)>>]

----------------------------------------------------------------------------
(* SpecTransform: log_syslog_line on arbitrary parsed messages *)

\* Severity names a parser could hand over: the eight of RFC 5424 and two
\* that SyslogSeverityToPythonLevel does not define
ParsedSeverities == SeverityNames \cup {"panic", "warn"}

NonEmptyMapV == [t |-> "map", v |-> <<"k">>]
NonEmptyListV == [t |-> "list", v |-> <<"x">>]
IntV == [t |-> "int", v |-> <<"1">>]

\* SyslogMessage.as_dict() of a parsed message
AsDict(severity, timestamp, hostname, procid, sd, msg) ==
    [k \in AllKeys |->
        CASE k = "severity" -> Str(<<severity>>)
          [] k = "facility" -> Str(<<"user">>)
          [] k = "version" -> IntV
          [] k = "timestamp" -> timestamp
          [] k = "hostname" -> hostname
          [] k = "appname" -> Str(<<"app">>)
          [] k = "procid" -> procid
          [] k = "msgid" -> NoneV
          [] k = "sd" -> sd
          [] k = "msg" -> msg]

SyslogMessage(severity, timestamp, hostname, procid, sd, msg) ==
    [severity |-> severity, msg |-> msg,
     dict |-> AsDict(severity, timestamp, hostname, procid, sd, msg)]

ParsedMessages ==
    {SyslogMessage(s, t, h, p, sd, m) :
        s \in ParsedSeverities,
        t \in {NoneV, Str(<<"t">>)},
        h \in {NoneV, Str(<<>>), Str(<<"h">>)},
        p \in {NoneV, EmptyListV, NonEmptyListV},
        sd \in {EmptyMapV, NonEmptyMapV},
        m \in {NoneV, Str(<<"m">>)}}

NoMessage == SyslogMessage("debug", NoneV, NoneV, NoneV, EmptyMapV, NoneV)
NoResult == [raised |-> FALSE, emitted |-> <<>>]

\* A key of the event dict that holds a string and is not there
MissingS == "<missing>"

\* event["logentry"]: missing, or a dict whose "params" is missing, a mapping
\* or a tuple
NoLogentry == [present |-> FALSE, params_kind |-> "missing", params |-> EmptyDict]
LogentryNoParams == [present |-> TRUE, params_kind |-> "missing", params |-> EmptyDict]
LogentryTuple == [present |-> TRUE, params_kind |-> "tuple", params |-> EmptyDict]
LogentryMapping(d) == [present |-> TRUE, params_kind |-> "mapping", params |-> d]

NoBreadcrumbs == [present |-> FALSE, values |-> <<>>]
Breadcrumbs(bs) == [present |-> TRUE, values |-> bs]

NoPayload ==
    [logger |-> MissingS, platform |-> MissingS, server_name |-> AbsentV,
     timestamp |-> AbsentV, logentry |-> NoLogentry,
     breadcrumbs |-> NoBreadcrumbs]
NoRaise == "-"

RunIdle ==
    /\ input_file = <<>>
    /\ pos = 0
    /\ finished = FALSE
    /\ passed = <<>>
    /\ calls = <<>>
    /\ crumbs = <<>>
    /\ sent = <<>>

TransformIdle ==
    /\ tmsg = NoMessage
    /\ tres = NoResult
    /\ tdone = FALSE

RewriteIdle ==
    /\ payload = NoPayload
    /\ orig = NoPayload
    /\ once = NoPayload
    /\ applied = 0
    /\ raisedAt = NoRaise

InitTransform ==
    /\ event_level \in LoggingLevels
    /\ tmsg \in ParsedMessages
    /\ tres = NoResult
    /\ tdone = FALSE
    /\ RunIdle
    /\ RewriteIdle

log_syslog_line_parsed ==
    /\ ~tdone
    /\ tres' = LogParsed(tmsg, event_level)
    /\ tdone' = TRUE
    /\ UNCHANGED <<event_level, tmsg, runVars, rewriteVars>>

NextTransform == log_syslog_line_parsed

SpecTransform == InitTransform /\ [][NextTransform]_vars

----------------------------------------------------------------------------
(* process_syslog_fields *)

\* A breadcrumb: [has_data, data, timestamp], timestamp AbsentV when missing.
\* The loop over event.get("breadcrumbs", []): the breadcrumbs as the loop
\* leaves them and the key whose lookup raised, if one did
RECURSIVE RewriteBreadcrumbs(_)
RewriteBreadcrumbs(bs) ==
    IF bs = <<>> THEN [values |-> <<>>, raisedAt |-> NoRaise]
    ELSE LET b == Head(bs)
         IN IF ~b.has_data
            THEN [values |-> bs, raisedAt |-> "breadcrumb.data"]
            ELSE IF b.timestamp = AbsentV
            THEN [values |-> bs, raisedAt |-> "breadcrumb.timestamp"]
            ELSE LET nb == [b EXCEPT
                              !.timestamp = PopValue(b.data, "timestamp", b.timestamp),
                              !.data = PopRest(b.data, "timestamp")]
                     rest == RewriteBreadcrumbs(Tail(bs))
                 IN [values |-> <<nb>> \o rest.values,
                     raisedAt |-> rest.raisedAt]

\* if event["logger"] == logger.name: return event
SelfOriginatedNever(event) == FALSE

SelfOriginated(event) == event.logger = LoggerName

\* event["server_name"] = event["logentry"]["params"].pop("hostname", event["server_name"])
RelocateHostnameDefaultNone(event) ==
    [event EXCEPT
        !.server_name = PopValue(event.logentry.params, "hostname", NoneV),
        !.logentry.params = PopRest(event.logentry.params, "hostname")]

RelocateHostname(event) ==
    [event EXCEPT
        !.server_name = PopValue(event.logentry.params, "hostname",
                                 event.server_name),
        !.logentry.params = PopRest(event.logentry.params, "hostname")]

\* event["timestamp"] = event["logentry"]["params"].pop("timestamp", event["timestamp"])
RelocateTimestamp(event) ==
    [event EXCEPT
        !.timestamp = PopValue(event.logentry.params, "timestamp",
                               event.timestamp),
        !.logentry.params = PopRest(event.logentry.params, "timestamp")]

\* The key whose lookup raises in event["logentry"]["params"].pop(key, event[slot])
ParamsPopRaises(event, slot) ==
    IF ~event.logentry.present THEN "logentry"
    ELSE IF event.logentry.params_kind = "missing" THEN "params"
    ELSE IF event.logentry.params_kind = "tuple" THEN "pop"
    ELSE IF event[slot] = AbsentV THEN slot
    ELSE NoRaise

\* process_syslog_fields(event, hint): the event dict as the call leaves it,
\* and the key whose lookup raised (NoRaise when the call returned the event)
process_syslog_fields(event) ==
    IF event.logger = MissingS
    THEN [event |-> event, raisedAt |-> "logger"]
    ELSE IF SelfOriginated(event)
    THEN [event |-> event, raisedAt |-> NoRaise]
    ELSE LET e1 == [event EXCEPT !.platform = "syslog"]
             r1 == ParamsPopRaises(e1, "server_name")
         IN IF r1 # NoRaise THEN [event |-> e1, raisedAt |-> r1]
            ELSE LET e2 == RelocateHostname(e1)
                     r2 == ParamsPopRaises(e2, "timestamp")
                 IN IF r2 # NoRaise THEN [event |-> e2, raisedAt |-> r2]
                    ELSE LET e3 == RelocateTimestamp(e2)
                             bs == RewriteBreadcrumbs(e3.breadcrumbs.values)
                         IN [event |-> [e3 EXCEPT !.breadcrumbs.values = bs.values],
                             raisedAt |-> bs.raisedAt]

----------------------------------------------------------------------------
(* SpecRewrite: process_syslog_fields on arbitrary outbound payloads *)

MaxBreadcrumbs == 2
MaxApplications == 2

\* params / breadcrumb data holding any subset of {hostname, timestamp}
FieldDicts ==
    {[EmptyDict EXCEPT !["hostname"] = h, !["timestamp"] = t] :
        h \in {AbsentV, Str(<<"h">>)}, t \in {AbsentV, Str(<<"t">>)}}

BreadcrumbShapes ==
    {[has_data |-> FALSE, data |-> EmptyDict, timestamp |-> ts] :
        ts \in {AbsentV, Str(<<"now">>)}}
    \cup
    {[has_data |-> TRUE, data |-> [EmptyDict EXCEPT !["timestamp"] = t],
      timestamp |-> ts] :
        t \in {AbsentV, Str(<<"t">>)}, ts \in {AbsentV, Str(<<"now">>)}}

InitRewrite ==
    /\ event_level = ERROR
    /\ \E l \in {MissingS, LoggerName, "urllib3"},
          sn \in {AbsentV, Str(<<"sdk-host">>)},
          ts \in {AbsentV, Str(<<"now">>)},
          le \in {NoLogentry, LogentryNoParams, LogentryTuple}
                 \cup {LogentryMapping(d) : d \in FieldDicts},
          n \in 0..MaxBreadcrumbs :
          \E bs \in [1..n -> BreadcrumbShapes],
             bc \in BOOLEAN :
             /\ bc \/ n = 0
             /\ payload = [logger |-> l, platform |-> "python",
                           server_name |-> sn, timestamp |-> ts, logentry |-> le,
                           breadcrumbs |-> IF bc THEN Breadcrumbs(bs)
                                           ELSE NoBreadcrumbs]
    /\ orig = payload
    /\ once = payload
    /\ applied = 0
    /\ raisedAt = NoRaise
    /\ TransformIdle
    /\ RunIdle

\* The SDK calls before_send; a second call is made on what the first returned
before_send ==
    /\ applied < MaxApplications
    /\ raisedAt = NoRaise
    /\ LET r == process_syslog_fields(payload)
       IN /\ payload' = r.event
          /\ raisedAt' = r.raisedAt
          /\ once' = IF applied = 0 THEN r.event ELSE once
    /\ applied' = applied + 1
    /\ UNCHANGED <<event_level, orig, transformVars, runVars>>

NextRewrite == before_send

SpecRewrite == InitRewrite /\ [][NextRewrite]_vars

----------------------------------------------------------------------------
(* Spec: run() over an input file *)

MaxLines == 2

\* A line is a sequence of symbols.  A well-formed RFC 5424 line is reduced to
\* a header symbol carrying the severity (with version and timestamp), a
\* hostname symbol ("-" is the NILVALUE) and the message characters.
NL == "\n"
HostSymbols == {"h", "-"}
MessageChars == {"m"}
Messages == {<<>>, <<"m">>}

WellFormedTexts ==
    {<<p, h>> \o m : p \in SeverityNames, h \in HostSymbols, m \in Messages}
MalformedTexts == {<<"x">>}
Texts == WellFormedTexts \cup MalformedTexts

\* syslog_rfc5424_parser.SyslogMessage.parse(syslog_line)
Parse(text) ==
    IF /\ Len(text) >= 2
       /\ text[1] \in SeverityNames
       /\ text[2] \in HostSymbols
       /\ \A i \in 3..Len(text) : text[i] \in MessageChars
    THEN [ok |-> TRUE,
          msg |-> SyslogMessage(text[1], Str(<<"t">>),
                                IF text[2] = "-" THEN NoneV ELSE Str(<<text[2]>>),
                                NoneV, EmptyMapV,
                                IF Len(text) = 2 THEN NoneV
                                ELSE Str(SubSeq(text, 3, Len(text))))]
    ELSE [ok |-> FALSE, msg |-> NoMessage]

\* log_syslog_line(syslog_line, event_level)
log_syslog_line(text, threshold) ==
    LET p == Parse(text)
    IN IF ~p.ok THEN [raised |-> TRUE, emitted |-> <<>>]
       ELSE LogParsed(p.msg, threshold)

\* syslog_line[:-1]
DropLast(line) ==
    SubSeq(line, 1, Len(line) - 1)

ExceptionTemplate == Str(<<"Exception raised while tyring to log syslog line:\n%s">>)

\* logger.exception(template, syslog_line)
LogExceptionNothing(line) == <<>>

LogException(line) ==
    <<LogCall(ERROR, ExceptionTemplate, <<StrArg(line)>>, NoExtra, TRUE)>>

\* The body of the for loop on one line: the calls it makes on the logger,
\* and whether an exception leaves the try statement
LoopBodyNoExcept(line, threshold) ==
    LET r == log_syslog_line(DropLast(line), threshold)
    IN [emitted |-> r.emitted, propagated |-> r.raised]

LoopBody(line, threshold) ==
    LET r == log_syslog_line(DropLast(line), threshold)
    IN [emitted |-> IF r.raised THEN r.emitted \o LogException(line)
                    ELSE r.emitted,
        propagated |-> FALSE]

\* The logging surface takes the calls in the order they are made
HandOnFirst(log, new) == new \o log

HandOn(log, new) == log \o new

----------------------------------------------------------------------------
(* the Sentry logging integration, as main() sets it up *)

SdkServerName == Str(<<"sdk-host">>)
SdkNow == Str(<<"now">>)

\* A record's args: logging takes a single non-empty mapping argument as the
\* args themselves, anything else stays a tuple
LogentryOf(call) ==
    IF /\ Len(call.args) = 1
       /\ call.args[1].kind = "mapping"
       /\ KeysOf(call.args[1].mapping) # {}
    THEN LogentryMapping(call.args[1].mapping)
    ELSE LogentryTuple

\* The event the integration builds from a record at or above event_level
EventOf(call, bs) ==
    [logger |-> call.name, platform |-> "python", server_name |-> SdkServerName,
     timestamp |-> SdkNow, logentry |-> LogentryOf(call),
     breadcrumbs |-> Breadcrumbs(bs)]

\* The breadcrumb the integration keeps of a record below event_level
BreadcrumbOf(call) ==
    [has_data |-> TRUE, data |-> call.extra.data, timestamp |-> SdkNow]

\* The integration's handling of the calls of one loop iteration
RECURSIVE Integrate(_, _, _, _)
Integrate(new, threshold, bs, out) ==
    IF new = <<>> THEN [crumbs |-> bs, sent |-> out]
    ELSE LET call == Head(new)
         IN IF call.levelno >= threshold
            THEN LET built == EventOf(call, bs)
                     r == process_syslog_fields(built)
                 IN Integrate(Tail(new), threshold, bs,
                              IF r.raisedAt = NoRaise
                              THEN Append(out, [built |-> built, returned |-> r.event])
                              ELSE out)
            ELSE Integrate(Tail(new), threshold, Append(bs, BreadcrumbOf(call)), out)

InitRun ==
    /\ event_level \in {WARNING, ERROR, CRITICAL}
    \* What iterating a text file yields: every line ends with the line
    \* terminator, except that the last one may lack it
    /\ \E n \in 0..MaxLines :
          \E body \in [1..n -> Texts], last \in {<<>>, <<NL>>} :
             input_file = [i \in 1..n |-> IF i < n THEN body[i] \o <<NL>>
                                          ELSE body[i] \o last]
    /\ pos = 0
    /\ finished = FALSE
    /\ passed = <<>>
    /\ calls = <<>>
    /\ crumbs = <<>>
    /\ sent = <<>>
    /\ TransformIdle
    /\ RewriteIdle

Iterate(line) ==
    LET body == LoopBody(line, event_level)
        sdk == Integrate(body.emitted, event_level, crumbs, sent)
    IN /\ pos' = pos + 1
       /\ passed' = Append(passed, DropLast(line))
       /\ calls' = HandOn(calls, body.emitted)
       /\ crumbs' = sdk.crumbs
       /\ sent' = sdk.sent
       \* an exception that leaves the loop body ends run()
       /\ finished' = body.propagated
       /\ UNCHANGED <<event_level, input_file, transformVars, rewriteVars>>

\* for syslog_line in input_file: log_syslog_line returns
IterateLogged ==
    /\ ~finished
    /\ pos < Len(input_file)
    /\ ~log_syslog_line(DropLast(input_file[pos + 1]), event_level).raised
    /\ Iterate(input_file[pos + 1])

\* for syslog_line in input_file: log_syslog_line raises, except Exception
IterateExcept ==
    /\ ~finished
    /\ pos < Len(input_file)
    /\ log_syslog_line(DropLast(input_file[pos + 1]), event_level).raised
    /\ Iterate(input_file[pos + 1])

\* the iterator is exhausted and run() returns
EndOfInput ==
    /\ ~finished
    /\ pos = Len(input_file)
    /\ finished' = TRUE
    /\ UNCHANGED <<event_level, input_file, pos, passed, calls, crumbs, sent,
                   transformVars, rewriteVars>>

Next == IterateLogged \/ IterateExcept \/ EndOfInput

Init == InitRun

Spec == Init /\ [][Next]_vars

----------------------------------------------------------------------------
(* Properties of log_syslog_line, under SpecTransform *)

Empties == {NoneV, EmptyMapV, EmptyListV}

\* The projection a logging call carries, wherever it carries it
ProjectionOf(c) ==
    IF c.extra.present THEN c.extra.data ELSE c.args[1].mapping

\* C1: for a message whose severity is one of the eight, log_syslog_line makes
\* exactly one logging call, at the mapped level; it carries the projection as
\* the single positional argument and no extra when level >= event_level, and
\* as extra with no positional argument when level < event_level.
C1_ProjectionInExactlyOnePlace ==
    (tdone /\ tmsg.severity \in SeverityNames) =>
        /\ ~tres.raised
        /\ Len(tres.emitted) = 1
        /\ LET c == tres.emitted[1]
               fields == SyslogFields(tmsg.dict)
           IN /\ c.levelno = SyslogSeverityToPythonLevel(tmsg.severity).value
              /\ c.msg = tmsg.msg
              /\ (c.levelno >= event_level) =>
                    (c.args = <<DictArg(fields)>> /\ c.extra = NoExtra)
              /\ (c.levelno < event_level) =>
                    (c.args = <<>> /\ c.extra = Extra(fields))

\* An err line at threshold ERROR: the boundary level = event_level
C1_Witness ==
    /\ tdone
    /\ tmsg.severity = "err"
    /\ event_level = ERROR
    /\ Len(tres.emitted) = 1
    /\ tres.emitted[1].args # <<>>
    /\ ~tres.emitted[1].extra.present
    /\ Has(tres.emitted[1].args[1].mapping, "hostname")

\* C7: the projection holds none of facility, appname, severity, msg, version,
\* holds no key whose value is None, {} or [], and holds every other key of
\* the message's dict with its value unchanged.
C7_ProjectionContents ==
    (tdone /\ ~tres.raised) =>
        LET proj == ProjectionOf(tres.emitted[1])
        IN \A k \in AllKeys :
              /\ k \in ExcludedKeys => ~Has(proj, k)
              /\ Has(proj, k) => (proj[k] \notin Empties /\ proj[k] = tmsg.dict[k])
              /\ (k \notin ExcludedKeys /\ tmsg.dict[k] \notin Empties)
                    => proj[k] = tmsg.dict[k]

\* A message with procid [] and an empty-string hostname: the first is dropped,
\* the second is kept
C7_Witness ==
    /\ tdone
    /\ ~tres.raised
    /\ tmsg.dict["procid"] = EmptyListV
    /\ tmsg.dict["hostname"] = Str(<<>>)
    /\ tmsg.dict["sd"] = NonEmptyMapV
    /\ ProjectionOf(tres.emitted[1])["hostname"] = Str(<<>>)
    /\ ~Has(ProjectionOf(tres.emitted[1]), "procid")

\* C8: emerg, alert and crit log at CRITICAL, err at ERROR, warning and notice
\* at WARNING, info at INFO, debug at DEBUG, in the order
\* CRITICAL > ERROR > WARNING > INFO > DEBUG; a severity name outside the eight
\* fails the lookup and nothing is logged.
C8_SeverityMapping ==
    /\ CRITICAL > ERROR /\ ERROR > WARNING /\ WARNING > INFO /\ INFO > DEBUG
    /\ tdone =>
        LET s == tmsg.severity
            loggedAt(l) == /\ ~tres.raised
                           /\ Len(tres.emitted) = 1
                           /\ tres.emitted[1].levelno = l
        IN /\ s \in {"emerg", "alert", "crit"} => loggedAt(CRITICAL)
           /\ s = "err" => loggedAt(ERROR)
           /\ s \in {"warning", "notice"} => loggedAt(WARNING)
           /\ s = "info" => loggedAt(INFO)
           /\ s = "debug" => loggedAt(DEBUG)
           /\ s \notin SeverityNames => (tres.raised /\ tres.emitted = <<>>)

\* A notice line logged at WARNING
C8_Witness ==
    /\ tdone
    /\ tmsg.severity = "notice"
    /\ Len(tres.emitted) = 1
    /\ tres.emitted[1].levelno = WARNING

----------------------------------------------------------------------------
(* Properties of run(), under Spec *)

\* The lines consumed so far on which log_syslog_line raised
RaisedOn == {i \in 1..Len(passed) : log_syslog_line(passed[i], event_level).raised}
Forwarded == {i \in 1..Len(calls) : ~calls[i].exc_info}
Diagnostics == {i \in 1..Len(calls) : calls[i].exc_info}

\* C2: every line consumed is handed to log_syslog_line whatever happened on
\* the lines before it, run ends only at end of input, and when
\* log_syslog_line raised on exactly one of the N lines, run has made N-1
\* forwarding calls and one diagnostic call.
C2_OneMalformedLine ==
    /\ Len(passed) = pos
    /\ pos <= Len(input_file)
    /\ finished => pos = Len(input_file)
    /\ (finished /\ Cardinality(RaisedOn) = 1) =>
          /\ Cardinality(Forwarded) = Len(input_file) - 1
          /\ Cardinality(Diagnostics) = 1

\* Two lines, the first malformed: the second is still forwarded
C2_Witness ==
    /\ finished
    /\ Len(input_file) = 2
    /\ RaisedOn = {1}
    /\ Len(calls) = 2
    /\ calls[1].exc_info
    /\ ~calls[2].exc_info

\* C9: the i-th call on the logging surface is the one call made for the i-th
\* line consumed: a diagnostic call carrying that line, or a forwarding call at
\* that line's level with that line's message and hostname.
C9_OneCallPerLineInOrder ==
    /\ Len(calls) = pos
    /\ \A i \in 1..Len(calls) :
          LET c == calls[i]
              line == input_file[i]
              text == passed[i]
          IN IF c.exc_info
             THEN c.args = <<StrArg(line)>>
             ELSE /\ c.levelno = SyslogSeverityToPythonLevel(line[1]).value
                  /\ c.msg = (IF Len(text) = 2 THEN NoneV
                              ELSE Str(SubSeq(text, 3, Len(text))))
                  /\ Has(ProjectionOf(c), "hostname") <=> line[2] # "-"

\* A malformed line, then a well-formed one: a diagnostic call, then a
\* forwarding call
C9_Witness ==
    /\ pos = 2
    /\ Len(calls) = 2
    /\ calls[1].exc_info
    /\ ~calls[2].exc_info
    /\ calls[2].levelno = CRITICAL
    /\ calls[2].msg = Str(<<"m">>)

\* C3: an event built from a forwarding call whose projection holds hostname
\* and timestamp leaves before_send with platform "syslog", the hostname in
\* server_name, the timestamp in timestamp, and neither left in
\* logentry.params.
C3_ForwardedEventsRewritten ==
    \A i \in 1..Len(sent) :
        LET b == sent[i].built
            r == sent[i].returned
        IN (/\ b.logentry.params_kind = "mapping"
            /\ Has(b.logentry.params, "hostname")
            /\ Has(b.logentry.params, "timestamp")) =>
              /\ r.platform = "syslog"
              /\ r.server_name = b.logentry.params["hostname"]
              /\ r.timestamp = b.logentry.params["timestamp"]
              /\ ~Has(r.logentry.params, "hostname")
              /\ ~Has(r.logentry.params, "timestamp")

\* The line without its trailing line terminator, every other character kept
WithoutTerminator(line) ==
    IF Len(line) > 0 /\ line[Len(line)] = NL
    THEN SubSeq(line, 1, Len(line) - 1)
    ELSE line

\* C10: the text handed to log_syslog_line is the line without its trailing
\* line terminator, also for a last line that has none.
C10_OnlyTerminatorRemoved ==
    \A i \in 1..Len(passed) : passed[i] = WithoutTerminator(input_file[i])

----------------------------------------------------------------------------
(* Properties of process_syslog_fields, under SpecRewrite *)

\* C4: process_syslog_fields never raises, whatever keys the payload lacks.
C4_NeverRaises ==
    raisedAt = NoRaise

\* C5: an event whose logger is the module's own logger is returned with
\* every field as it was.
C5_SelfOriginatedUntouched ==
    (applied >= 1 /\ orig.logger = LoggerName) =>
        (raisedAt = NoRaise /\ payload = orig)

\* An event of the module's own logger with hostname and timestamp in its
\* params and a breadcrumb with a timestamp in its data
C5_Witness ==
    /\ applied >= 1
    /\ orig.logger = LoggerName
    /\ Has(orig.logentry.params, "hostname")
    /\ Has(orig.logentry.params, "timestamp")
    /\ Len(orig.breadcrumbs.values) >= 1
    /\ Has(orig.breadcrumbs.values[1].data, "timestamp")
    /\ payload.platform = "python"

\* Every key process_syslog_fields reads is there
WellShaped(e) ==
    /\ e.logger # MissingS
    /\ e.server_name # AbsentV
    /\ e.timestamp # AbsentV
    /\ e.logentry.present
    /\ e.logentry.params_kind = "mapping"
    /\ \A i \in 1..Len(e.breadcrumbs.values) :
          /\ e.breadcrumbs.values[i].has_data
          /\ e.breadcrumbs.values[i].timestamp # AbsentV

\* C6: on a well-shaped payload process_syslog_fields returns, and applying
\* it again to what it returned changes nothing.
C6_Idempotent ==
    WellShaped(orig) =>
        /\ raisedAt = NoRaise
        /\ applied >= 2 => payload = once

\* A foreign event with hostname and timestamp to relocate, rewritten twice
C6_Witness ==
    /\ applied = 2
    /\ WellShaped(orig)
    /\ orig.logger # LoggerName
    /\ Has(orig.logentry.params, "hostname")
    /\ Has(orig.logentry.params, "timestamp")
    /\ Len(orig.breadcrumbs.values) >= 1
    /\ Has(orig.breadcrumbs.values[1].data, "timestamp")
    /\ payload.server_name = Str(<<"h">>)
    /\ payload.timestamp = Str(<<"t">>)
    /\ payload.breadcrumbs.values[1].timestamp = Str(<<"t">>)
    /\ payload # orig

====
